---- MODULE Spec2Model ----
(***************************************************************************)
(* Model of src/src/proxy.js: the worker-side proxy(o, target) binding,    *)
(* its message listener (OPERATION / DISPOSE), the callback stand-ins it   *)
(* creates for function placeholders, the error marshaller and dispose().  *)
(*                                                                         *)
(* One endpoint (target) is modelled.  JavaScript values are strings, a    *)
(* thrown value is a record, and the bound object is a small object with   *)
(* a nested child, a writable and a read-only property, a non-function     *)
(* property and methods that return, throw, return a pending promise or    *)
(* use the callbacks they are given.                                       *)
(***************************************************************************)
EXTENDS Integers, Sequences, FiniteSets, TLC

\* ------------------------------------------------------------------ bounds
MaxBinds == 3     \* proxy() calls on the endpoint that return a handle
MaxMsgs == 2      \* messages delivered to the endpoint
MaxOps == 2       \* operations carried by all OPERATION messages together
MaxInvoke == 2    \* later invocations of retained stand-ins, all together

\* --------------------------------------------------- constants.js (imports)
ACTION_OPERATION == "operation"
ACTION_DISPOSE == "dispose"
RESULT_SUCCESS == "success"
RESULT_ERROR == "error"
RESULT_CALLBACK == "callback"
TYPE_FUNCTION == "function"

\* Array.prototype.includes / indexOf (0-based, -1 when absent)
Includes(arr, v) == \E i \in 1..Len(arr) : arr[i] = v

IndexOf(arr, v) ==
  IF Includes(arr, v)
  THEN (CHOOSE i \in 1..Len(arr) : arr[i] = v /\ \A j \in 1..(i - 1) : arr[j] # v) - 1
  ELSE -1

\* Array.prototype.slice(begin, end): a copy, the array itself is left alone
Slice(arr, begin, end) == [j \in 1..(IF end > begin THEN end - begin ELSE 0) |-> arr[begin + j]]

\* ------------------------------------------------------ thrown JS values
\* kind "object" is an Error instance (ctor is its constructor's name);
\* kinds "null" and "undefined" are the values null and undefined.
NoThrow == [kind |-> "none", ctor |-> "", message |-> "", stack |-> ""]

MkError(ctor, msg) == [kind |-> "object", ctor |-> ctor, message |-> msg, stack |-> "stack"]

ThrownNull == [kind |-> "null", ctor |-> "", message |-> "", stack |-> ""]

ThrownUndefined == [kind |-> "undefined", ctor |-> "", message |-> "", stack |-> ""]

NoDescriptor == [name |-> "", message |-> "", stack |-> ""]

\* error(e): reads e.constructor.name, e.message, e.stack.  Reading a property
\* of null or undefined throws a TypeError out of error() itself.
error(e) ==
  IF e.kind \in {"null", "undefined"}
  THEN [threw |-> TRUE, desc |-> NoDescriptor]
  ELSE [threw |-> FALSE, desc |-> [name |-> e.ctor, message |-> e.message, stack |-> e.stack]]

\* ------------------------------------------------------- the bound object o
\*   o = { a: frozen {b: 42}, x: 0 (writable), ro: 1 (read-only), n: 1,
\*         inc, fail, failNull, later, on, twice (frozen functions) }, sealed.
\* Its mutable state: the value of x, the number of inc() calls made.
InitObject == [x |-> "v0", count |-> 0]

Methods == {"inc", "fail", "failNull", "later", "on", "twice"}

IsNullish(v) == v \in {"undef", "null"}

IsFunction(v) == v \in {"fn_" \o k : k \in Methods}

IsPrimitive(v) == v \in {"v0", "v1", "v5", "v7", "v42", "n1", "vInc", "true", "false"}

\* result && typeof result.then === 'function'
IsThenable(v) == v = "promise"

\* result[key] for a non-nullish result
GetProp(v, key, ob) ==
  IF v = "root" THEN
    CASE key = "a" -> "child"
      [] key = "x" -> ob.x
      [] key = "ro" -> "v1"
      [] key = "n" -> "n1"
      [] key \in Methods -> "fn_" \o key
      [] OTHER -> "undef"
  ELSE IF v = "child" /\ key = "b" THEN "v42"
  ELSE "undef"

\* Reflect.set(result, key, value): TypeError on a non-object, else the
\* boolean outcome; only o.x is writable, a promise takes any property.
ReflectSetThrows(v) == IsNullish(v) \/ IsPrimitive(v)

ReflectSetOk(v, key) == (v = "root" /\ key = "x") \/ v = "promise"

ReflectSetObject(v, key, value, ob) ==
  IF v = "root" /\ key = "x" THEN [ob EXCEPT !.x = value] ELSE ob

\* ------------------------------------------------------------- envelopes
\* target.postMessage is taken to accept every payload it is given; run is
\* the listener invocation whose code made the call (not part of the payload).
NoFunc == [args |-> <<>>, ref |-> 0]

Envelope(type, id, result, err, func, run) ==
  [type |-> type, id |-> id, result |-> result, error |-> err, func |-> func, run |-> run]

\* ------------------------------------------------- the callback stand-in
\* The inner arrow function (...params) => {...}: s is the stand-in's closure
\* (its own called flag, arg.ref, the request's id), persisted the array of
\* the listener invocation that created it.
\* (StandinThrowsUncalled: the test without its `called &&` part)
StandinThrowsUncalled(s, persisted) == ~Includes(persisted, s.ref)

\* (StandinThrowsNever: the stand-in without the test)
StandinThrowsNever(s, persisted) == FALSE

StandinThrows(s, persisted) == s.called /\ ~Includes(persisted, s.ref)

StandinCall(s, persisted, params, id) ==
  IF StandinThrows(s, persisted)
  THEN [s |-> [s EXCEPT !.failed = @ + 1],
        out |-> <<>>,
        threw |-> TRUE,
        thrown |-> MkError("Error", "Callback has been disposed and no longer available.")]
  ELSE [s |-> [s EXCEPT !.called = TRUE, !.sent = @ + 1],
        out |-> <<Envelope(RESULT_CALLBACK, id, "", NoDescriptor,
                            [args |-> params, ref |-> s.ref], s.run)>>,
        threw |-> FALSE,
        thrown |-> NoThrow]

\* The outer arrow function run by args.map for one argument: a placeholder
\* pushes its ref when persisted and is replaced by a fresh stand-in.
IsPlaceholder(arg) == arg.type = TYPE_FUNCTION

NewStandin(arg, run) ==
  [run |-> run, ref |-> arg.ref, persisted |-> arg.persisted, called |-> FALSE,
   held |-> FALSE, sent |-> 0, failed |-> 0, disposeSeen |-> FALSE]

RECURSIVE MapArgs(_, _, _, _)
MapArgs(st, args, j, run) ==
  IF j > Len(args) THEN st
  ELSE LET arg == args[j] IN
    IF IsPlaceholder(arg)
    THEN MapArgs([st EXCEPT
                    !.persisted = IF arg.persisted THEN Append(@, arg.ref) ELSE @,
                    !.standins = Append(@, NewStandin(arg, run)),
                    !.targs = Append(@, [fn |-> TRUE, val |-> "", sid |-> Len(st.standins) + 1])],
                 args, j + 1, run)
    ELSE MapArgs([st EXCEPT !.targs = Append(@, [fn |-> FALSE, val |-> arg.val, sid |-> 0])],
                 args, j + 1, run)

\* ------------------------------------------------ the methods of o (calls)
Throw(st, e, i) == [st EXCEPT !.threw = TRUE, !.thrown = e, !.failedAt = i]

\* cb(...) run inside a method of o: the stand-in st.standins[sid] is called
InvokeIn(st, sid, params, id, i) ==
  LET r == StandinCall(st.standins[sid], st.persisted, params, id)
      st1 == [st EXCEPT !.standins[sid] = r.s, !.out = @ \o r.out]
  IN IF r.threw THEN Throw(st1, r.thrown, i) ELSE st1

\* prop(...args): the body of the method of o that prop is
\*   inc()      counts the call, returns a value
\*   fail()     throws new Error('boom')
\*   failNull() throws null
\*   later()    returns a pending promise
\*   on(...cb)  keeps the callbacks it is given, to call them later
\*   twice(cb)  calls cb('p1') two times in a row
CallMethod(st, fn, id, i) ==
  CASE fn = "fn_inc" -> [st EXCEPT !.ob.count = @ + 1, !.cur = "vInc"]
    [] fn = "fn_fail" -> Throw(st, MkError("Error", "boom"), i)
    [] fn = "fn_failNull" -> Throw(st, ThrownNull, i)
    [] fn = "fn_later" -> [st EXCEPT !.cur = "promise"]
    [] fn = "fn_on" ->
         [st EXCEPT !.cur = "undef",
                    !.standins = [n \in 1..Len(st.standins) |->
                       IF \E j \in 1..Len(st.targs) : st.targs[j].fn /\ st.targs[j].sid = n
                       THEN [st.standins[n] EXCEPT !.held = TRUE]
                       ELSE st.standins[n]]]
    [] fn = "fn_twice" ->
         IF Len(st.targs) = 0 \/ ~st.targs[1].fn
         THEN Throw(st, MkError("TypeError", "cb is not a function"), i)
         ELSE LET first == InvokeIn(st, st.targs[1].sid, <<"p1">>, id, i)
              IN IF first.threw THEN first
                 ELSE [InvokeIn(first, st.targs[1].sid, <<"p1">>, id, i) EXCEPT !.cur = "undef"]

\* --------------------------------------------- one action of the chain
Log(st, i, op) == [st EXCEPT !.acc = Append(@, <<i, op>>)]

\* action.type === 'get'
StepGet(st, action, i) ==
  IF IsNullish(st.cur)
  THEN Throw(st, MkError("TypeError", "Cannot read properties of undefined"), i)
  ELSE [Log(st, i, "read") EXCEPT !.cur = GetProp(st.cur, action.key, st.ob)]

\* action.type === 'set'
\* (StepSetAssigned: result takes the assigned value, as an assignment
\* expression would give)
StepSetAssigned(st, action, i) ==
  IF ReflectSetThrows(st.cur)
  THEN Throw(st, MkError("TypeError", "Reflect.set called on non-object"), i)
  ELSE [Log(st, i, "write") EXCEPT
          !.cur = action.value,
          !.ob = ReflectSetObject(st.cur, action.key, action.value, st.ob)]

StepSet(st, action, i) ==
  IF ReflectSetThrows(st.cur)
  THEN Throw(st, MkError("TypeError", "Reflect.set called on non-object"), i)
  ELSE [Log(st, i, "write") EXCEPT
          !.cur = IF ReflectSetOk(st.cur, action.key) THEN "true" ELSE "false",
          !.ob = ReflectSetObject(st.cur, action.key, action.value, st.ob)]

\* action.type === 'apply'
\* (StepApplyArgsFirst: the arguments are mapped before prop is tested)
StepApplyArgsFirst(st, action, i, run, id) ==
  IF IsNullish(st.cur)
  THEN Throw(st, MkError("TypeError", "Cannot read properties of undefined"), i)
  ELSE LET prop == GetProp(st.cur, action.key, st.ob)
           mapped == MapArgs([Log(st, i, "read") EXCEPT !.targs = <<>>], action.args, 1, run)
       IN IF ~IsFunction(prop)
          THEN Throw(mapped, MkError("TypeError", "undefined is not a function"), i)
          ELSE CallMethod(Log(mapped, i, "call"), prop, id, i)

StepApply(st, action, i, run, id) ==
  IF IsNullish(st.cur)
  THEN Throw(st, MkError("TypeError", "Cannot read properties of undefined"), i)
  ELSE LET prop == GetProp(st.cur, action.key, st.ob)
           read == Log(st, i, "read")
       IN IF ~IsFunction(prop)
          THEN Throw(read, MkError("TypeError", "undefined is not a function"), i)
          ELSE CallMethod(Log(MapArgs([read EXCEPT !.targs = <<>>], action.args, 1, run),
                              i, "call"),
                          prop, id, i)

\* (StepSkipUnknown: an unrecognised tag is passed over)
StepSkipUnknown(st, action, i, run, id) ==
  IF action.type = "get" THEN StepGet(st, action, i)
  ELSE IF action.type = "set" THEN StepSet(st, action, i)
  ELSE IF action.type = "apply" THEN StepApply(st, action, i, run, id)
  ELSE st

Step(st, action, i, run, id) ==
  IF action.type = "get" THEN StepGet(st, action, i)
  ELSE IF action.type = "set" THEN StepSet(st, action, i)
  ELSE IF action.type = "apply" THEN StepApply(st, action, i, run, id)
  ELSE Throw(st, MkError("Error", "Unsupported operation " \o action.type), i)

\* result and o as they are after an action that did not throw
Record(st) ==
  IF st.threw THEN st
  ELSE [st EXCEPT !.vals = Append(@, st.cur), !.obs = Append(@, st.ob)]

\* for (const action of data) {...}: left to right, a throw leaves the loop
RECURSIVE RunChain(_, _, _, _, _)
RunChain(st, data, i, run, id) ==
  IF i > Len(data) \/ st.threw THEN st
  ELSE RunChain(Record(Step(st, data[i], i, run, id)), data, i + 1, run, id)

\* ------------------------------------------------------------------ inputs
\* The operations a request may carry.
Plain(v) == [type |-> "value", val |-> v, ref |-> 0, persisted |-> FALSE]

Placeholder(ref, persisted) == [type |-> TYPE_FUNCTION, val |-> "", ref |-> ref, persisted |-> persisted]

OpGet(key) == [type |-> "get", key |-> key, value |-> "", args |-> <<>>]

OpSet(key, value) == [type |-> "set", key |-> key, value |-> value, args |-> <<>>]

OpApply(key, args) == [type |-> "apply", key |-> key, value |-> "", args |-> args]

ArgLists ==
  { <<Placeholder(1, FALSE)>>, <<Placeholder(1, TRUE)>>,
    <<Placeholder(1, FALSE), Placeholder(1, TRUE)>>,
    <<Placeholder(1, FALSE), Placeholder(2, TRUE)>> }

Steps ==
  {OpGet("a"), OpGet("b"), OpSet("x", "v5"), OpSet("ro", "v5")}
  \cup {OpApply(k, <<>>) : k \in {"n", "inc", "fail", "failNull", "later"}}
  \cup {OpApply("n", <<Placeholder(1, TRUE)>>)}
  \cup {OpApply("on", args) : args \in ArgLists}
  \cup {OpApply("twice", args) : args \in {<<Placeholder(1, FALSE)>>, <<Placeholder(1, TRUE)>>}}
  \cup {[type |-> "delete", key |-> "x", value |-> "", args |-> <<>>]}

Chains(n) == UNION {[1..k -> Steps] : k \in 0..n}

DisposeRefs == {1, 2}

\* the request identifier the caller puts on its n-th message
CallerId(n) == 20 - n

\* what a promise returned by later() can settle to
Settlements ==
  { [how |-> "resolve", value |-> "v7", reason |-> NoThrow],
    [how |-> "reject", value |-> "", reason |-> MkError("Error", "rejected")],
    [how |-> "reject", value |-> "", reason |-> ThrownUndefined] }

\* ------------------------------------------------------------------- state
VARIABLES
  proxies,    \* the WeakMap entry of target: 0 (none) or the handle whose o it holds
  listeners,  \* the message listeners installed on target, in registration order
  nbind,      \* number of proxy() calls that returned a handle
  disposed,   \* handles whose dispose() has been called
  lastCall,   \* the last proxy()/dispose() call and whether it threw
  obj,        \* obj[h]: state of the object bound by handle h
  inbox,      \* type and id of the messages delivered to target so far
  ops,        \* number of operations those messages carried
  runs,       \* one record per listener invocation that handled an OPERATION;
              \* status: sent | awaiting | threwOut | unhandled
  standins,   \* the stand-ins created so far
  outbox,     \* the envelopes passed to target.postMessage, in order
  invoked,    \* number of calls o has made to callbacks it kept
  lastExec    \* the chain replays of the step just taken, one per listener called

vars == <<proxies, listeners, nbind, disposed, lastCall, obj, inbox, ops, runs, standins,
          outbox, invoked, lastExec>>

Init ==
  /\ proxies = 0
  /\ listeners = <<>>
  /\ nbind = 0
  /\ disposed = {}
  /\ lastCall = [op |-> "none", threw |-> FALSE]
  /\ obj = <<>>
  /\ inbox = <<>>
  /\ ops = 0
  /\ runs = <<>>
  /\ standins = <<>>
  /\ outbox = <<>>
  /\ invoked = 0
  /\ lastExec = <<>>

msgVars == <<inbox, ops, runs, standins, outbox, invoked>>

\* ------------------------------------------------------ proxy(o, target)
\* proxies.has(target)
\* (ProxiesHasNever: proxy() without the duplicate check)
ProxiesHasNever == FALSE

ProxiesHas == proxies # 0

proxy ==
  /\ ProxiesHas \/ nbind < MaxBinds
  /\ IF ProxiesHas
     THEN /\ lastCall' = [op |-> "proxy", threw |-> TRUE]
          /\ UNCHANGED <<proxies, listeners, nbind, obj>>
     ELSE /\ lastCall' = [op |-> "proxy", threw |-> FALSE]
          /\ nbind' = nbind + 1
          /\ proxies' = nbind + 1
          /\ obj' = Append(obj, InitObject)
          /\ listeners' = Append(listeners, nbind + 1)
  /\ lastExec' = <<>>
  /\ UNCHANGED <<disposed, msgVars>>

\* ------------------------------------------------------ handle.dispose()
\* target.removeEventListener('message', listener) of handle h
\* (RemoveListenerNot: dispose() that leaves the listener installed)
RemoveListenerNot(ls, h) == ls

RemoveListener(ls, h) == SelectSeq(ls, LAMBDA l : l # h)

dispose(h) ==
  /\ listeners' = RemoveListener(listeners, h)
  /\ proxies' = 0
  /\ disposed' = disposed \cup {h}
  /\ lastCall' = [op |-> "dispose", threw |-> FALSE]
  /\ lastExec' = <<>>
  /\ UNCHANGED <<nbind, obj, msgVars>>

\* ------------------------------------------------- listener: OPERATION
\* const persisted = [] at the top of every listener invocation
ListenerPersisted == <<>>

\* What follows the loop: the thenable test and the SUCCESS post, or the
\* catch block with the ERROR post (error(e) may itself throw there).
\* (FinishAlwaysAsync: every terminal value goes through Promise.resolve)
FinishAlwaysAsync(st, id, run) ==
  IF st.threw
  THEN LET d == error(st.thrown)
       IN IF d.threw
          THEN [out |-> <<>>, status |-> "threwOut"]
          ELSE [out |-> <<Envelope(RESULT_ERROR, id, "", d.desc, NoFunc, run)>>, status |-> "sent"]
  ELSE [out |-> <<>>, status |-> "awaiting"]

Finish(st, id, run) ==
  IF st.threw
  THEN LET d == error(st.thrown)
       IN IF d.threw
          THEN [out |-> <<>>, status |-> "threwOut"]
          ELSE [out |-> <<Envelope(RESULT_ERROR, id, "", d.desc, NoFunc, run)>>, status |-> "sent"]
  ELSE IF IsThenable(st.cur)
       THEN [out |-> <<>>, status |-> "awaiting"]
       ELSE [out |-> <<Envelope(RESULT_SUCCESS, id, st.cur, NoDescriptor, NoFunc, run)>>,
             status |-> "sent"]

\* w is the part of the state a listener invocation can change, b the handle
\* whose listener runs, m the message (e.data), n its position in the inbox.
HandleOperation(w, b, m, n) ==
  LET run == Len(w.runs) + 1
      id == m.id
      st0 == [cur |-> "root", ob |-> w.obj[b], persisted |-> ListenerPersisted,
              standins |-> w.standins, targs |-> <<>>, out |-> <<>>, acc |-> <<>>,
              threw |-> FALSE, thrown |-> NoThrow, failedAt |-> 0,
              vals |-> <<>>, obs |-> <<>>]
      st == RunChain(st0, m.data, 1, run, id)
      fin == Finish(st, id, run)
  IN [obj |-> [w.obj EXCEPT ![b] = st.ob],
      standins |-> st.standins,
      outbox |-> w.outbox \o st.out \o fin.out,
      runs |-> Append(w.runs, [b |-> b, msg |-> n, id |-> id,
                               persisted |-> st.persisted, status |-> fin.status,
                               settled |-> "none", reason |-> NoThrow]),
      execs |-> Append(w.execs, [run |-> run, len |-> Len(m.data), acc |-> st.acc,
                                 failedAt |-> st.failedAt, data |-> m.data,
                                 before |-> w.obj[b], vals |-> st.vals, obs |-> st.obs])]

\* --------------------------------------------------- listener: DISPOSE
\* persisted.indexOf(ref), then persisted.slice(index, 1) whose value is
\* dropped: slice copies, so the array is what it was.
DisposeFrom(persisted, ref) ==
  LET index == IndexOf(persisted, ref)
      copy == IF index > -1 THEN Slice(persisted, index, 1) ELSE <<>>
  IN persisted

\* The array searched is the one of this listener invocation; the arrays the
\* stand-ins of earlier invocations closed over (runs[k].persisted) are not
\* reachable from here.  disposeSeen records that the DISPOSE was received.
\* (HandleDisposeStrict: a reference not found in persisted is reported)
HandleDisposeStrict(w, b, m) ==
  IF IndexOf(ListenerPersisted, m.ref) > -1 THEN w
  ELSE [w EXCEPT !.outbox = Append(@, Envelope(RESULT_ERROR, m.id, "",
                                     error(MkError("Error", "Unknown reference")).desc,
                                     NoFunc, 0))]

HandleDispose(w, b, m) ==
  LET mine == DisposeFrom(ListenerPersisted, m.ref)
  IN [w EXCEPT !.standins = [n \in 1..Len(w.standins) |->
                   IF w.runs[w.standins[n].run].b = b /\ w.standins[n].ref = m.ref
                   THEN [w.standins[n] EXCEPT !.disposeSeen = TRUE]
                   ELSE w.standins[n]]]

\* switch (e.data.type)
listener(w, b, m, n) ==
  IF m.type = ACTION_OPERATION THEN HandleOperation(w, b, m, n)
  ELSE IF m.type = ACTION_DISPOSE THEN HandleDispose(w, b, m)
  ELSE w

\* ---------------------------------------------- a message event on target
\* The host calls the listeners installed on target, in registration order.
RECURSIVE DispatchEvent(_, _, _, _)
DispatchEvent(w, ls, m, n) ==
  IF ls = <<>> THEN w
  ELSE DispatchEvent(listener(w, Head(ls), m, n), Tail(ls), m, n)

Messages(n, budget) ==
  {[type |-> ACTION_OPERATION, id |-> CallerId(n), data |-> d, ref |-> 0] : d \in Chains(budget)}
  \cup {[type |-> ACTION_DISPOSE, id |-> 0, data |-> <<>>, ref |-> r] : r \in DisposeRefs}

Deliver ==
  /\ Len(inbox) < MaxMsgs
  /\ \E m \in Messages(Len(inbox) + 1, MaxOps - ops) :
       LET n == Len(inbox) + 1
           w == DispatchEvent([obj |-> obj, standins |-> standins, outbox |-> outbox,
                               runs |-> runs, execs |-> <<>>], listeners, m, n)
       IN /\ inbox' = Append(inbox, [type |-> m.type, id |-> m.id])
          /\ ops' = ops + Len(m.data)
          /\ obj' = w.obj
          /\ standins' = w.standins
          /\ outbox' = w.outbox
          /\ runs' = w.runs
          /\ lastExec' = w.execs
  /\ UNCHANGED <<proxies, listeners, nbind, disposed, lastCall, invoked>>

\* ------------------------------------- the promise callbacks of a request
\* the id the closures of listener invocation k hold (const { id } = e.data)
\* (ClosureIdShared: id kept in one variable shared by all invocations)
ClosureIdShared(k) == runs[Len(runs)].id

ClosureId(k) == runs[k].id

\* Promise.resolve(result).then(r => post SUCCESS, e => post ERROR) once the
\* terminal value of run k settles; error(e) throwing in the second callback
\* leaves an unhandled rejection and nothing is posted.
Settle(k, s) ==
  /\ runs[k].status = "awaiting"
  /\ IF s.how = "resolve"
     THEN /\ outbox' = Append(outbox, Envelope(RESULT_SUCCESS, ClosureId(k), s.value,
                                               NoDescriptor, NoFunc, k))
          /\ runs' = [runs EXCEPT ![k].status = "sent", ![k].settled = "resolve"]
     ELSE LET d == error(s.reason)
          IN IF d.threw
             THEN /\ outbox' = outbox
                  /\ runs' = [runs EXCEPT ![k].status = "unhandled", ![k].settled = "reject",
                                           ![k].reason = s.reason]
             ELSE /\ outbox' = Append(outbox, Envelope(RESULT_ERROR, ClosureId(k), "",
                                                       d.desc, NoFunc, k))
                  /\ runs' = [runs EXCEPT ![k].status = "sent", ![k].settled = "reject",
                                           ![k].reason = s.reason]
  /\ lastExec' = <<>>
  /\ UNCHANGED <<proxies, listeners, nbind, disposed, lastCall, obj, inbox, ops, standins, invoked>>

\* ----------------------------- o calls a callback it kept (after on(...))
Invoke(sid) ==
  /\ standins[sid].held
  /\ invoked < MaxInvoke
  /\ invoked' = invoked + 1
  /\ LET s == standins[sid]
         r == StandinCall(s, runs[s.run].persisted, <<"p1">>, ClosureId(s.run))
     IN /\ standins' = [standins EXCEPT ![sid] = r.s]
        /\ outbox' = outbox \o r.out
  /\ lastExec' = <<>>
  /\ UNCHANGED <<proxies, listeners, nbind, disposed, lastCall, obj, inbox, ops, runs>>

Next ==
  \/ proxy
  \/ \E h \in 1..nbind : dispose(h)
  \/ Deliver
  \/ \E k \in 1..Len(runs), s \in Settlements : Settle(k, s)
  \/ \E sid \in 1..Len(standins) : Invoke(sid)

Spec == Init /\ [][Next]_vars

\* =========================================================== the claims
Outcome(e) == e.type \in {RESULT_SUCCESS, RESULT_ERROR}

\* positions in the outbox of the SUCCESS/ERROR envelopes carrying id
OutcomesWithId(id) == {i \in 1..Len(outbox) : Outcome(outbox[i]) /\ outbox[i].id = id}

\* positions in the outbox of the envelopes of type t posted by run k
PostedBy(k, t) == {i \in 1..Len(outbox) : outbox[i].run = k /\ outbox[i].type = t}

RunsOf(n) == {k \in 1..Len(runs) : runs[k].msg = n}

\* C1: every OPERATION request delivered while a listener is installed gets at
\* most one SUCCESS-or-ERROR envelope with its id, and exactly one once none of
\* its listener invocations is still awaiting an asynchronous terminal value.
C1_ExactlyOneOutcome ==
  \A n \in 1..Len(inbox) :
    (inbox[n].type = ACTION_OPERATION /\ RunsOf(n) # {}) =>
      /\ Cardinality(OutcomesWithId(inbox[n].id)) <= 1
      /\ (\A k \in RunsOf(n) : runs[k].status # "awaiting") =>
           Cardinality(OutcomesWithId(inbox[n].id)) = 1

\* C2: no exception leaves the listener: whatever is thrown while the chain
\* is replayed is marshalled and posted as an ERROR envelope with the
\* request's id.
C2_NoEscape ==
  /\ \A k \in 1..Len(runs) : runs[k].status # "threwOut"
  /\ \A x \in 1..Len(lastExec) :
       lastExec[x].failedAt > 0 =>
         \E i \in PostedBy(lastExec[x].run, RESULT_ERROR) :
           outbox[i].id = runs[lastExec[x].run].id

\* The accesses of a replay are made step by step from the first step on, and
\* none belongs to a step after the one that failed.
InOrder(x) ==
  /\ \A i, j \in 1..Len(x.acc) : i < j => x.acc[i][1] <= x.acc[j][1]
  /\ \A i \in 1..Len(x.acc) : x.acc[i][1] \in 1..x.len
  /\ x.failedAt > 0 => \A i \in 1..Len(x.acc) : x.acc[i][1] <= x.failedAt
  /\ x.failedAt = 0 => \A step \in 1..x.len : \E i \in 1..Len(x.acc) : x.acc[i][1] = step
  /\ x.failedAt > 0 => \A step \in 1..(x.failedAt - 1) : \E i \in 1..Len(x.acc) : x.acc[i][1] = step

\* C3: the steps of a chain are applied left to right; when step k fails,
\* exactly one ERROR envelope is posted for the request and no later step is
\* evaluated.
C3_InOrderOneError ==
  \A x \in 1..Len(lastExec) :
    /\ InOrder(lastExec[x])
    /\ lastExec[x].failedAt > 0 =>
         Cardinality(PostedBy(lastExec[x].run, RESULT_ERROR)) = 1

\* C4: whatever proxy() and dispose() calls were made, at most one message
\* listener is installed on the endpoint.
C4_AtMostOneListener == Len(listeners) <= 1

\* a step that is a proxy() call
ProxyCall == lastCall'.op = "proxy" /\ (lastCall' # lastCall \/ nbind' # nbind)

\* C5: a proxy() call that follows a proxy() call with no dispose() call in
\* between throws and changes neither the registry, the listeners, the bound
\* objects nor the outbox; a proxy() call that follows a dispose() call
\* returns a new handle whose listener is installed.
C5_DuplicateBindThrows ==
  [][ProxyCall =>
       /\ lastCall.op = "proxy" =>
            /\ lastCall'.threw
            /\ UNCHANGED <<proxies, listeners, nbind, obj, outbox, runs, standins>>
       /\ lastCall.op = "dispose" =>
            /\ ~lastCall'.threw
            /\ nbind' = nbind + 1
            /\ proxies' = nbind'
            /\ Includes(listeners', nbind')]_vars

\* a duplicate proxy() call threw after a rebind that followed a dispose()
C5_Witness == nbind >= 2 /\ lastCall = [op |-> "proxy", threw |-> TRUE]

\* C6: a stand-in made from a persisted placeholder posts a CALLBACK envelope
\* on every call until its binding has received a DISPOSE naming its ref, and
\* posts none after that.
C6_PersistedUntilDispose ==
  [][\A sid \in 1..Len(standins) :
       standins[sid].persisted =>
         IF standins[sid].disposeSeen
         THEN standins'[sid].sent = standins[sid].sent
         ELSE standins'[sid].failed = standins[sid].failed]_vars

\* the CALLBACK envelopes posted for ref by the stand-ins of run k
CallbacksOf(k, ref) == {i \in PostedBy(k, RESULT_CALLBACK) : outbox[i].func.ref = ref}

SameClosure(k, ref) == {n \in 1..Len(standins) : standins[n].run = k /\ standins[n].ref = ref}

RECURSIVE SentBy(_)
SentBy(S) == IF S = {} THEN 0
             ELSE LET n == CHOOSE n \in S : TRUE IN standins[n].sent + SentBy(S \ {n})

\* every CALLBACK envelope carries the id of the request that created the
\* stand-in, the placeholder's ref and the call's arguments, and there is one
\* such envelope per successful call
CallbackEnvelopes(sid) ==
  LET s == standins[sid] IN
  /\ Cardinality(CallbacksOf(s.run, s.ref)) = SentBy(SameClosure(s.run, s.ref))
  /\ \A i \in CallbacksOf(s.run, s.ref) :
       outbox[i].id = inbox[runs[s.run].msg].id /\ outbox[i].func.args = <<"p1">>

\* C7 as stated: a stand-in made from a non-persisted placeholder posts one
\* CALLBACK envelope on its first call and fails on every later call.
C7_OneShot ==
  \A sid \in 1..Len(standins) :
    ~standins[sid].persisted =>
      /\ standins[sid].sent <= 1
      /\ standins[sid].sent + standins[sid].failed >= 1 => standins[sid].sent = 1
      /\ CallbackEnvelopes(sid)

\* C7 amended: the first call of a stand-in made from a non-persisted
\* placeholder posts one CALLBACK envelope with the request's id, the ref and
\* the arguments; a later call posts nothing and fails, unless the listener
\* invocation that made the stand-in also transformed a persisted placeholder
\* with the same ref, in which case every call posts a CALLBACK envelope.
C7_OneShotUnlessRefPersisted ==
  \A sid \in 1..Len(standins) :
    ~standins[sid].persisted =>
      /\ standins[sid].sent + standins[sid].failed >= 1 => standins[sid].sent >= 1
      /\ IF Includes(runs[standins[sid].run].persisted, standins[sid].ref)
         THEN standins[sid].failed = 0
         ELSE standins[sid].sent <= 1
      /\ CallbackEnvelopes(sid)

\* a non-persisted stand-in was called twice: one envelope, one failure
C7_Witness ==
  \E sid \in 1..Len(standins) :
    /\ ~standins[sid].persisted
    /\ standins[sid].sent = 1
    /\ standins[sid].failed = 1
    /\ Cardinality(CallbacksOf(standins[sid].run, standins[sid].ref)) = 1

\* C8: while the thenable terminal value of a request is pending no SUCCESS or
\* ERROR envelope is posted for it; when it resolves to v exactly one SUCCESS
\* envelope with result v is posted, when it rejects with e exactly one ERROR
\* envelope with the descriptor of e; the thenable itself is never a result.
C8_AsyncOutcome ==
  /\ \A k \in 1..Len(runs) :
       /\ runs[k].status = "awaiting" =>
            PostedBy(k, RESULT_SUCCESS) \cup PostedBy(k, RESULT_ERROR) = {}
       /\ runs[k].settled = "resolve" =>
            /\ PostedBy(k, RESULT_ERROR) = {}
            /\ Cardinality(PostedBy(k, RESULT_SUCCESS)) = 1
            /\ \A i \in PostedBy(k, RESULT_SUCCESS) : outbox[i].result = "v7"
       /\ runs[k].settled = "reject" =>
            /\ PostedBy(k, RESULT_SUCCESS) = {}
            /\ Cardinality(PostedBy(k, RESULT_ERROR)) = 1
            /\ \A i \in PostedBy(k, RESULT_ERROR) :
                 outbox[i].error = [name |-> runs[k].reason.ctor,
                                    message |-> runs[k].reason.message,
                                    stack |-> runs[k].reason.stack]
  /\ \A i \in 1..Len(outbox) : ~IsThenable(outbox[i].result)

\* C9: every envelope in the outbox carries the id of the OPERATION message
\* whose listener invocation posted it (directly, from a promise callback or
\* from a stand-in), and that id is one that was received.
C9_IdEchoed ==
  \A i \in 1..Len(outbox) :
    /\ outbox[i].run \in 1..Len(runs)
    /\ inbox[runs[outbox[i].run].msg].type = ACTION_OPERATION
    /\ outbox[i].id = inbox[runs[outbox[i].run].msg].id

\* two requests with asynchronous terminal values were in flight together and
\* the later one was answered first
C9_Witness ==
  \E i, j \in 1..Len(outbox) :
    /\ i < j
    /\ Outcome(outbox[i]) /\ Outcome(outbox[j])
    /\ runs[outbox[i].run].settled # "none" /\ runs[outbox[j].run].settled # "none"
    /\ runs[outbox[i].run].msg > runs[outbox[j].run].msg

\* what the listener of handle b has done so far
WorkOf(b) ==
  [object |-> obj[b],
   runs |-> {k \in 1..Len(runs) : runs[k].b = b},
   posted |-> {i \in 1..Len(outbox) : runs[outbox[i].run].b = b},
   seen |-> {n \in 1..Len(standins) : runs[standins[n].run].b = b /\ standins[n].disposeSeen}]

\* C10: a message delivered after dispose() of a handle is not processed by
\* that handle's listener: no replay on its object, no envelope, no DISPOSE
\* handling.
C10_DisposedIgnores ==
  [][inbox' # inbox => \A b \in disposed : WorkOf(b)' = WorkOf(b)]_vars

\* a first request was handled, the handle was disposed, and a second request
\* then found no listener
C10_Witness ==
  /\ Len(inbox) = 2
  /\ inbox[2].type = ACTION_OPERATION
  /\ RunsOf(1) # {}
  /\ RunsOf(2) = {}
  /\ disposed # {}

\* the envelope posted by the step, when it posted exactly one
PostedNow == outbox'[Len(outbox')]

PostsOne == Len(outbox') = Len(outbox) + 1

\* run k, whose handle is disposed, has its terminal value settle in the step
SettlesDisposed(k) ==
  /\ runs[k].status = "awaiting"
  /\ runs[k].b \in disposed
  /\ runs'[k].status # "awaiting"

\* stand-in sid, whose handle is disposed, is called in the step
CalledDisposed(sid) ==
  /\ runs[standins[sid].run].b \in disposed
  /\ standins'[sid].sent + standins'[sid].failed > standins[sid].sent + standins[sid].failed

\* C11: dispose() cancels nothing already started: when the pending terminal
\* value of a request settles after dispose() of its handle, the SUCCESS or
\* ERROR envelope of the request is posted, and a stand-in made before the
\* dispose() that is persisted or not yet called posts its CALLBACK envelope
\* when it is called afterwards.
C11_DisposeCancelsNothing ==
  [][/\ \A k \in 1..Len(runs) :
          SettlesDisposed(k) =>
            PostsOne /\ Outcome(PostedNow) /\ PostedNow.run = k /\ PostedNow.id = runs[k].id
     /\ \A sid \in 1..Len(standins) :
          (CalledDisposed(sid) /\ (standins[sid].persisted \/ ~standins[sid].called)) =>
            /\ PostsOne
            /\ PostedNow.type = RESULT_CALLBACK
            /\ PostedNow.run = standins[sid].run
            /\ PostedNow.func.ref = standins[sid].ref]_vars

\* result and o as step k of replay x found them
CurBefore(x, k) == IF k = 1 THEN "root" ELSE x.vals[k - 1]

ObBefore(x, k) == IF k = 1 THEN x.before ELSE x.obs[k - 1]

\* steps 1..k-1 of replay x did not throw
Reached(x, k) == x.failedAt = 0 \/ x.failedAt >= k

\* the placeholders in the arguments of the apply steps before step k
PlaceholdersBefore(x, k) ==
  UNION {{<<i, j>> : j \in {j \in 1..Len(x.data[i].args) : IsPlaceholder(x.data[i].args[j])}} :
           i \in {i \in 1..(k - 1) : x.data[i].type = "apply"}}

StandinsOf(run) == {n \in 1..Len(standins) : standins[n].run = run}

\* step k of replay x is an apply whose key does not name a function of the
\* current value
NotCallable(x, k) ==
  /\ x.data[k].type = "apply"
  /\ Reached(x, k)
  /\ ~IsNullish(CurBefore(x, k))
  /\ ~IsFunction(GetProp(CurBefore(x, k), x.data[k].key, ObBefore(x, k)))

\* C12: an apply step whose key names something of the current value that is
\* not a function fails the request there with one ERROR envelope whose
\* descriptor is a TypeError; nothing is called, o is left as the step found
\* it, no stand-in is made for the step's placeholders and no SUCCESS envelope
\* is posted.
C12_NotCallableError ==
  \A n \in 1..Len(lastExec) : \A k \in 1..lastExec[n].len :
    LET x == lastExec[n] IN
    NotCallable(x, k) =>
      /\ x.failedAt = k
      /\ PostedBy(x.run, RESULT_SUCCESS) = {}
      /\ Cardinality(PostedBy(x.run, RESULT_ERROR)) = 1
      /\ \A i \in PostedBy(x.run, RESULT_ERROR) :
           outbox[i].error.name = "TypeError" /\ outbox[i].id = runs[x.run].id
      /\ \A i \in 1..Len(x.acc) : x.acc[i] # <<k, "call">>
      /\ obj[runs[x.run].b] = ObBefore(x, k)
      /\ Cardinality(StandinsOf(x.run)) = Cardinality(PlaceholdersBefore(x, k))

\* an apply on the non-function property n, with a placeholder among its
\* arguments, has just failed
C12_Witness ==
  \E n \in 1..Len(lastExec) : \E k \in 1..lastExec[n].len :
    /\ NotCallable(lastExec[n], k)
    /\ lastExec[n].data[k].key = "n"
    /\ \E j \in 1..Len(lastExec[n].data[k].args) : IsPlaceholder(lastExec[n].data[k].args[j])
    /\ PostedBy(lastExec[n].run, RESULT_ERROR) # {}

\* step k of replay x is a set on an object
SetOnObject(x, k) ==
  /\ x.data[k].type = "set"
  /\ Reached(x, k)
  /\ CurBefore(x, k) \in {"root", "child"}

\* o.x is the writable property; o.ro is read-only and o.a is frozen
Writable(v, key) == v = "root" /\ key = "x"

ReadOnly(v, key) == (v = "root" /\ key = "ro") \/ v = "child"

\* C13: a set step makes the current value the boolean outcome of the
\* assignment: true with key = value on the target when the property is
\* writable; false with the target unchanged when it is read-only, and a chain
\* ending there yields SUCCESS with result false and no ERROR.
C13_SetYieldsOutcome ==
  \A n \in 1..Len(lastExec) : \A k \in 1..lastExec[n].len :
    LET x == lastExec[n]
        cur == CurBefore(x, k)
        key == x.data[k].key
    IN SetOnObject(x, k) =>
         /\ x.failedAt # k
         /\ x.vals[k] \in {"true", "false"}
         /\ Writable(cur, key) =>
              /\ x.vals[k] = "true"
              /\ GetProp(cur, key, x.obs[k]) = x.data[k].value
         /\ ReadOnly(cur, key) =>
              /\ x.vals[k] = "false"
              /\ x.obs[k] = ObBefore(x, k)
              /\ k = x.len =>
                   /\ PostedBy(x.run, RESULT_ERROR) = {}
                   /\ Cardinality(PostedBy(x.run, RESULT_SUCCESS)) = 1
                   /\ \A i \in PostedBy(x.run, RESULT_SUCCESS) : outbox[i].result = "false"

\* after an earlier request set x, a set of the read-only ro that ends its
\* chain has just been replayed and answered
C13_Witness ==
  \E n \in 1..Len(lastExec) :
    LET x == lastExec[n] IN
    /\ x.len > 0
    /\ x.before.x = "v5"
    /\ SetOnObject(x, x.len) /\ ReadOnly(CurBefore(x, x.len), x.data[x.len].key)
    /\ PostedBy(x.run, RESULT_SUCCESS) # {}

\* this step delivers a DISPOSE message to the listeners on target
DisposeDelivered ==
  /\ Len(inbox') = Len(inbox) + 1
  /\ inbox'[Len(inbox')].type = ACTION_DISPOSE

\* C14: handling a DISPOSE message, for a known or an unknown reference, posts
\* nothing, throws nothing (no listener invocation is recorded as failed) and
\* leaves the bound object, the registry and the listeners as they were.
C14_DisposeSilent ==
  [][DisposeDelivered =>
       /\ outbox' = outbox
       /\ runs' = runs
       /\ obj' = obj
       /\ proxies' = proxies
       /\ listeners' = listeners
       /\ disposed' = disposed
       /\ Len(standins') = Len(standins)]_vars

\* a listener has handled a DISPOSE naming the reference of a persisted
\* stand-in
C14_Witness ==
  /\ \E n \in 1..Len(inbox) : inbox[n].type = ACTION_DISPOSE
  /\ \E sid \in 1..Len(standins) : standins[sid].disposeSeen /\ standins[sid].persisted

\* step k of replay x carries a tag that is none of get, set, apply
Unsupported(x, k) == x.data[k].type \notin {"get", "set", "apply"} /\ Reached(x, k)

\* the steps of replay x that accessed o or a value reached from it
StepsDone(x) == {x.acc[i][1] : i \in 1..Len(x.acc)}

\* C15: an operation whose tag is none of get, set, apply fails the request
\* where it stands: one ERROR envelope naming the unsupported operation and no
\* SUCCESS; the steps before it have been applied (their values and their
\* effects on o are there), the steps after it are not.
C15_UnsupportedOperation ==
  \A n \in 1..Len(lastExec) : \A k \in 1..lastExec[n].len :
    LET x == lastExec[n] IN
    Unsupported(x, k) =>
      /\ x.failedAt = k
      /\ Len(x.vals) = k - 1
      /\ PostedBy(x.run, RESULT_SUCCESS) = {}
      /\ Cardinality(PostedBy(x.run, RESULT_ERROR)) = 1
      /\ \A i \in PostedBy(x.run, RESULT_ERROR) :
           /\ outbox[i].id = runs[x.run].id
           /\ outbox[i].error.name = "Error"
           /\ outbox[i].error.message = "Unsupported operation " \o x.data[k].type
      /\ StepsDone(x) = 1..(k - 1)
      /\ obj[runs[x.run].b] = ObBefore(x, k)

\* inc() was applied and changed o, then the unsupported second step failed
\* the request
C15_Witness ==
  \E n \in 1..Len(lastExec) :
    LET x == lastExec[n] IN
    /\ x.len = 2 /\ Unsupported(x, 2)
    /\ x.data[1].type = "apply" /\ x.data[1].key = "inc"
    /\ obj[runs[x.run].b] # x.before
    /\ PostedBy(x.run, RESULT_ERROR) # {}

TerminalOf(x) == IF x.len = 0 THEN "root" ELSE x.vals[x.len]

\* positions of the SUCCESS/ERROR envelopes this step posts
NewOutcomes == {i \in (Len(outbox) + 1)..Len(outbox') : Outcome(outbox'[i])}

\* the SUCCESS/ERROR envelopes of listener invocations that never awaited
\* stand in the outbox in the order their messages were received
ReceiptOrder ==
  \A i \in 1..Len(outbox) : \A j \in i..Len(outbox) :
    (/\ Outcome(outbox[i]) /\ Outcome(outbox[j])
     /\ runs[outbox[i].run].settled = "none" /\ runs[outbox[j].run].settled = "none") =>
      runs[outbox[i].run].msg <= runs[outbox[j].run].msg

\* C17: a request whose terminal value is not a thenable gets its SUCCESS
\* envelope in the very step that handles its message; every SUCCESS/ERROR
\* envelope posted in a step belongs to a message handled in that step or to a
\* request that was awaiting its terminal value; hence the envelopes of the
\* requests that never awaited are in receipt order.
C17_SyncInReceiptOrder ==
  [][/\ \A n \in 1..Len(lastExec') :
          LET x == lastExec'[n] IN
          (x.run > Len(runs) /\ x.failedAt = 0 /\ ~IsThenable(TerminalOf(x))) =>
            /\ runs'[x.run].msg = Len(inbox')
            /\ Cardinality({i \in NewOutcomes : outbox'[i].run = x.run}) = 1
            /\ \A i \in NewOutcomes : outbox'[i].run = x.run =>
                 outbox'[i].type = RESULT_SUCCESS /\ outbox'[i].result = TerminalOf(x)
     /\ \A i \in NewOutcomes :
          LET k == outbox'[i].run IN
          IF k > Len(runs) THEN runs'[k].msg = Len(inbox') /\ Len(inbox') = Len(inbox) + 1
          ELSE runs[k].status = "awaiting"
     /\ ReceiptOrder']_vars

\* overtaking: the envelope of a later-received request stands in the outbox
\* before the envelope of an earlier-received one, whose value was pending
C17_Witness ==
  \E i \in 1..Len(outbox) : \E j \in (i + 1)..Len(outbox) :
    /\ Outcome(outbox[i]) /\ Outcome(outbox[j])
    /\ runs[outbox[i].run].msg > runs[outbox[j].run].msg
    /\ runs[outbox[i].run].settled = "none"
    /\ runs[outbox[j].run].settled # "none"

\* C18: a failed request is not rolled back: when step k fails, o is as steps
\* 1..k-1 left it, and one ERROR envelope is the only SUCCESS/ERROR envelope
\* of the request.
C18_NoRollbackOneError ==
  \A n \in 1..Len(lastExec) :
    LET x == lastExec[n] IN
    x.failedAt > 0 =>
      /\ Len(x.obs) = x.failedAt - 1
      /\ obj[runs[x.run].b] = ObBefore(x, x.failedAt)
      /\ PostedBy(x.run, RESULT_SUCCESS) = {}
      /\ Cardinality(PostedBy(x.run, RESULT_ERROR)) = 1

====
